---- MODULE Spec2Model ----
(***************************************************************************)
(* Gamification progression engine of the blog backend: the routes of      *)
(* /game and /quests (XP ledger, daily-reward streaks, post reads, items,  *)
(* quest lifecycle) and the level calculator of GameService.               *)
(*                                                                         *)
(* One account is modelled, with a valid bearer token on every request.    *)
(* The persistent state is the record db (one field per table).  Every     *)
(* route of the two routers but one declares the CurrentUser dependency;   *)
(* FastAPI resolves it, by get_current_user, before it calls the route     *)
(* function.  get_current_user loads the account with Session.get(User,    *)
(* id), the first use of a mapped class by the request, for which          *)
(* sqlalchemy configures the mappers.  QuestSubmission.user is declared    *)
(* with back_populates="quest_submissions", a property the class User      *)
(* does not have, so the configuration raises InvalidRequestError, on the  *)
(* first request and on every later one.  The exception passes through     *)
(* get_async_session, which rolls the session back and raises it again.    *)
(* The route functions and the service and repository methods below them   *)
(* are therefore not reached, and the tables keep their initial content.   *)
(* The level calculator is a pair of static methods that use no session.   *)
(*                                                                         *)
(* Time is counted in milliseconds since the epoch (UTC).                  *)
(***************************************************************************)
EXTENDS Integers, Sequences, FiniteSets, Bags, TLC

VARIABLES
    db,     \* committed database state of the account
    now,    \* wall clock, milliseconds (UTC)
    ticks,  \* number of clock advances so far (bounds the run)
    served, \* number of requests answered so far (bounds the run)
    last    \* the last request: its inputs and its response

vars == <<db, now, ticks, served, last>>

(***************************************************************************)
(* Bounds of the model.                                                    *)
(***************************************************************************)
MaxTicks == 2          \* clock advances
MaxRequests == 3       \* requests answered
MaxXp == 1200          \* XP values given to the level calculator
MaxLevel == 10         \* levels given to the level calculator

(***************************************************************************)
(* Program constants.                                                      *)
(***************************************************************************)
XP_READ_POST == 15
CODE_SUBMISSION_COOLDOWN == 10

SECOND == 1000
DAY == 86400 * SECOND

NULL == -1          \* a NULL timestamp column, an absent integer
NullStr == << >>    \* a NULL text column, an absent text

Max(a, b) == IF a >= b THEN a ELSE b

(***************************************************************************)
(* Content: quest definitions and post slugs (read-only for the core).     *)
(* Texts are sequences of code points.                                     *)
(***************************************************************************)
QuestDefs ==
    [ q_mc   |-> [quest_type |-> "multiple-choice", correct_answer |-> <<32, 66>>,
                  hint |-> NullStr, xp_reward |-> 280],
      q_code |-> [quest_type |-> "code", correct_answer |-> NullStr,
                  hint |-> <<104>>, xp_reward |-> 30],
      q_plain |-> [quest_type |-> "code", correct_answer |-> NullStr,
                   hint |-> NullStr, xp_reward |-> 50] ]

QuestIds == DOMAIN QuestDefs
\* quest ids of the requests: two quests of the content and an unknown id
RequestQuestIds == {"q_mc", "q_code", "q_unknown"}
PostSlugs == {"intro", "p2"}

\* item ids (texts): the key-style item "key_g" and the plain "key"
key_gate == <<107, 101, 121, 95, 103>>
potion == <<107, 101, 121>>
Items == {key_gate, potion}
\* an absent or empty target slug
NoTarget == ""
\* answers of 1..1000 characters (QuestSubmitRequest): the correct " B"
\* after an em space and before a carriage return, the wrong "éB",
\* a wrong one of 501 characters ("a"), and the correct one in lower case
\* followed by 500 spaces
CorrectAnswer == <<8195, 66, 13>>
WrongAnswer == <<233, 66>>
LongAnswer == [i \in 1..501 |-> 97]
PaddedAnswer == [i \in 1..501 |-> IF i = 1 THEN 98 ELSE 32]
Answers == { CorrectAnswer, WrongAnswer, LongAnswer, PaddedAnswer }
\* the code "x"
Codes == { <<120>> }
\* what the review service has ready for a call of review_code: no API key
\* in the settings, or the oracle's client answering PASS, answering FAIL,
\* or raising
Verdicts == {"pass", "fail", "error", "no_key"}

\* the clock advances by 2 s or by 9.5 s
ShortDeltas == {2 * SECOND, 9500}
\* the run starts at 23:59:57 UTC of day 0
StartTime == DAY - 3 * SECOND

(***************************************************************************)
(* Text helpers: str.strip() and str.lower().  A text is the sequence of   *)
(* its code points; the tables are those of CPython 3.11 (Unicode 14.0).   *)
(***************************************************************************)
\* the code points str.isspace() holds for: U+0009..U+000D, U+001C..U+0020,
\* U+0085, U+00A0, U+1680, U+2000..U+200A, U+2028, U+2029, U+202F, U+205F
\* and U+3000
IsSpace(c) ==
    c \in (9..13) \cup (28..32) \cup {133, 160, 5760} \cup (8192..8202)
              \cup {8232, 8233, 8239, 8287, 12288}

\* the code points str.lower() maps to one other code point, as runs of
\* four numbers first, last, step, delta: first, first + step, .. last each
\* go to themselves plus delta
LowerRuns ==
    << 65, 90, 1, 32,  192, 214, 1, 32,  216, 222, 1, 32,  256, 302, 2, 1,
       306, 310, 2, 1,  313, 327, 2, 1,  330, 374, 2, 1,  376, 376, 1, -121,
       377, 381, 2, 1,  385, 385, 1, 210,  386, 388, 2, 1,
       390, 390, 1, 206,  391, 391, 1, 1,  393, 394, 1, 205,
       395, 395, 1, 1,  398, 398, 1, 79,  399, 399, 1, 202,
       400, 400, 1, 203,  401, 401, 1, 1,  403, 403, 1, 205,
       404, 404, 1, 207,  406, 406, 1, 211,  407, 407, 1, 209,
       408, 408, 1, 1,  412, 412, 1, 211,  413, 413, 1, 213,
       415, 415, 1, 214,  416, 420, 2, 1,  422, 422, 1, 218,
       423, 423, 1, 1,  425, 425, 1, 218,  428, 428, 1, 1,
       430, 430, 1, 218,  431, 431, 1, 1,  433, 434, 1, 217,
       435, 437, 2, 1,  439, 439, 1, 219,  440, 440, 1, 1,  444, 444, 1, 1,
       452, 452, 1, 2,  453, 453, 1, 1,  455, 455, 1, 2,  456, 456, 1, 1,
       458, 458, 1, 2,  459, 475, 2, 1,  478, 494, 2, 1,  497, 497, 1, 2,
       498, 500, 2, 1,  502, 502, 1, -97,  503, 503, 1, -56,
       504, 542, 2, 1,  544, 544, 1, -130,  546, 562, 2, 1,
       570, 570, 1, 10795,  571, 571, 1, 1,  573, 573, 1, -163,
       574, 574, 1, 10792,  577, 577, 1, 1,  579, 579, 1, -195,
       580, 580, 1, 69,  581, 581, 1, 71,  582, 590, 2, 1,  880, 882, 2, 1,
       886, 886, 1, 1,  895, 895, 1, 116,  902, 902, 1, 38,
       904, 906, 1, 37,  908, 908, 1, 64,  910, 911, 1, 63,
       913, 929, 1, 32,  931, 939, 1, 32,  975, 975, 1, 8,  984, 1006, 2, 1,
       1012, 1012, 1, -60,  1015, 1015, 1, 1,  1017, 1017, 1, -7,
       1018, 1018, 1, 1,  1021, 1023, 1, -130,  1024, 1039, 1, 80,
       1040, 1071, 1, 32,  1120, 1152, 2, 1,  1162, 1214, 2, 1,
       1216, 1216, 1, 15,  1217, 1229, 2, 1,  1232, 1326, 2, 1,
       1329, 1366, 1, 48,  4256, 4293, 1, 7264,  4295, 4295, 1, 7264,
       4301, 4301, 1, 7264,  5024, 5103, 1, 38864,  5104, 5109, 1, 8,
       7312, 7354, 1, -3008,  7357, 7359, 1, -3008,  7680, 7828, 2, 1,
       7838, 7838, 1, -7615,  7840, 7934, 2, 1,  7944, 7951, 1, -8,
       7960, 7965, 1, -8,  7976, 7983, 1, -8,  7992, 7999, 1, -8,
       8008, 8013, 1, -8,  8025, 8031, 2, -8,  8040, 8047, 1, -8,
       8072, 8079, 1, -8,  8088, 8095, 1, -8,  8104, 8111, 1, -8,
       8120, 8121, 1, -8,  8122, 8123, 1, -74,  8124, 8124, 1, -9,
       8136, 8139, 1, -86,  8140, 8140, 1, -9,  8152, 8153, 1, -8,
       8154, 8155, 1, -100,  8168, 8169, 1, -8,  8170, 8171, 1, -112,
       8172, 8172, 1, -7,  8184, 8185, 1, -128,  8186, 8187, 1, -126,
       8188, 8188, 1, -9,  8486, 8486, 1, -7517,  8490, 8490, 1, -8383,
       8491, 8491, 1, -8262,  8498, 8498, 1, 28,  8544, 8559, 1, 16,
       8579, 8579, 1, 1,  9398, 9423, 1, 26,  11264, 11311, 1, 48,
       11360, 11360, 1, 1,  11362, 11362, 1, -10743,
       11363, 11363, 1, -3814,  11364, 11364, 1, -10727,
       11367, 11371, 2, 1,  11373, 11373, 1, -10780,
       11374, 11374, 1, -10749,  11375, 11375, 1, -10783,
       11376, 11376, 1, -10782,  11378, 11378, 1, 1,  11381, 11381, 1, 1,
       11390, 11391, 1, -10815,  11392, 11490, 2, 1,  11499, 11501, 2, 1,
       11506, 11506, 1, 1,  42560, 42604, 2, 1,  42624, 42650, 2, 1,
       42786, 42798, 2, 1,  42802, 42862, 2, 1,  42873, 42875, 2, 1,
       42877, 42877, 1, -35332,  42878, 42886, 2, 1,  42891, 42891, 1, 1,
       42893, 42893, 1, -42280,  42896, 42898, 2, 1,  42902, 42920, 2, 1,
       42922, 42922, 1, -42308,  42923, 42923, 1, -42319,
       42924, 42924, 1, -42315,  42925, 42925, 1, -42305,
       42926, 42926, 1, -42308,  42928, 42928, 1, -42258,
       42929, 42929, 1, -42282,  42930, 42930, 1, -42261,
       42931, 42931, 1, 928,  42932, 42946, 2, 1,  42948, 42948, 1, -48,
       42949, 42949, 1, -42307,  42950, 42950, 1, -35384,
       42951, 42953, 2, 1,  42960, 42960, 1, 1,  42966, 42968, 2, 1,
       42997, 42997, 1, 1,  65313, 65338, 1, 32,  66560, 66599, 1, 40,
       66736, 66771, 1, 40,  66928, 66938, 1, 39,  66940, 66954, 1, 39,
       66956, 66962, 1, 39,  66964, 66965, 1, 39,  68736, 68786, 1, 64,
       71840, 71871, 1, 32,  93760, 93791, 1, 32,  125184, 125217, 1, 34 >>

\* the delta of the run that holds c, 0 when no run does (runs is a table
\* of runs)
RunDelta(c, runs) ==
    LET InRun(k) == /\ c >= runs[4 * k - 3]
                    /\ c <= runs[4 * k - 2]
                    /\ (c - runs[4 * k - 3]) % runs[4 * k - 1] = 0
        n == Len(runs) \div 4
    IN  IF \E k \in 1..n : InRun(k)
        THEN runs[4 * (CHOOSE k \in 1..n : InRun(k))]
        ELSE 0

\* c lies in one of the ranges (pairs of numbers first, last)
InRanges(c, ranges) ==
    \E k \in 1..(Len(ranges) \div 2) : c >= ranges[2 * k - 1] /\ c <= ranges[2 * k]

\* the case-ignorable code points, as ranges first, last
CaseIgnorableRanges ==
    << 39, 39,  46, 46,  58, 58,  94, 94,  96, 96,  168, 168,  173, 173,
       175, 175,  180, 180,  183, 184,  688, 879,  884, 885,  890, 890,
       900, 901,  903, 903,  1155, 1161,  1369, 1369,  1375, 1375,
       1425, 1469,  1471, 1471,  1473, 1474,  1476, 1477,  1479, 1479,
       1524, 1524,  1536, 1541,  1552, 1562,  1564, 1564,  1600, 1600,
       1611, 1631,  1648, 1648,  1750, 1757,  1759, 1768,  1770, 1773,
       1807, 1807,  1809, 1809,  1840, 1866,  1958, 1968,  2027, 2037,
       2042, 2042,  2045, 2045,  2070, 2093,  2137, 2139,  2184, 2184,
       2192, 2193,  2200, 2207,  2249, 2306,  2362, 2362,  2364, 2364,
       2369, 2376,  2381, 2381,  2385, 2391,  2402, 2403,  2417, 2417,
       2433, 2433,  2492, 2492,  2497, 2500,  2509, 2509,  2530, 2531,
       2558, 2558,  2561, 2562,  2620, 2620,  2625, 2626,  2631, 2632,
       2635, 2637,  2641, 2641,  2672, 2673,  2677, 2677,  2689, 2690,
       2748, 2748,  2753, 2757,  2759, 2760,  2765, 2765,  2786, 2787,
       2810, 2815,  2817, 2817,  2876, 2876,  2879, 2879,  2881, 2884,
       2893, 2893,  2901, 2902,  2914, 2915,  2946, 2946,  3008, 3008,
       3021, 3021,  3072, 3072,  3076, 3076,  3132, 3132,  3134, 3136,
       3142, 3144,  3146, 3149,  3157, 3158,  3170, 3171,  3201, 3201,
       3260, 3260,  3263, 3263,  3270, 3270,  3276, 3277,  3298, 3299,
       3328, 3329,  3387, 3388,  3393, 3396,  3405, 3405,  3426, 3427,
       3457, 3457,  3530, 3530,  3538, 3540,  3542, 3542,  3633, 3633,
       3636, 3642,  3654, 3662,  3761, 3761,  3764, 3772,  3782, 3782,
       3784, 3789,  3864, 3865,  3893, 3893,  3895, 3895,  3897, 3897,
       3953, 3966,  3968, 3972,  3974, 3975,  3981, 3991,  3993, 4028,
       4038, 4038,  4141, 4144,  4146, 4151,  4153, 4154,  4157, 4158,
       4184, 4185,  4190, 4192,  4209, 4212,  4226, 4226,  4229, 4230,
       4237, 4237,  4253, 4253,  4348, 4348,  4957, 4959,  5906, 5908,
       5938, 5939,  5970, 5971,  6002, 6003,  6068, 6069,  6071, 6077,
       6086, 6086,  6089, 6099,  6103, 6103,  6109, 6109,  6155, 6159,
       6211, 6211,  6277, 6278,  6313, 6313,  6432, 6434,  6439, 6440,
       6450, 6450,  6457, 6459,  6679, 6680,  6683, 6683,  6742, 6742,
       6744, 6750,  6752, 6752,  6754, 6754,  6757, 6764,  6771, 6780,
       6783, 6783,  6823, 6823,  6832, 6862,  6912, 6915,  6964, 6964,
       6966, 6970,  6972, 6972,  6978, 6978,  7019, 7027,  7040, 7041,
       7074, 7077,  7080, 7081,  7083, 7085,  7142, 7142,  7144, 7145,
       7149, 7149,  7151, 7153,  7212, 7219,  7222, 7223,  7288, 7293,
       7376, 7378,  7380, 7392,  7394, 7400,  7405, 7405,  7412, 7412,
       7416, 7417,  7468, 7530,  7544, 7544,  7579, 7679,  8125, 8125,
       8127, 8129,  8141, 8143,  8157, 8159,  8173, 8175,  8189, 8190,
       8203, 8207,  8216, 8217,  8228, 8228,  8231, 8231,  8234, 8238,
       8288, 8292,  8294, 8303,  8305, 8305,  8319, 8319,  8336, 8348,
       8400, 8432,  11388, 11389,  11503, 11505,  11631, 11631,
       11647, 11647,  11744, 11775,  11823, 11823,  12293, 12293,
       12330, 12333,  12337, 12341,  12347, 12347,  12441, 12446,
       12540, 12542,  40981, 40981,  42232, 42237,  42508, 42508,
       42607, 42610,  42612, 42621,  42623, 42623,  42652, 42655,
       42736, 42737,  42752, 42785,  42864, 42864,  42888, 42890,
       42994, 42996,  43000, 43001,  43010, 43010,  43014, 43014,
       43019, 43019,  43045, 43046,  43052, 43052,  43204, 43205,
       43232, 43249,  43263, 43263,  43302, 43309,  43335, 43345,
       43392, 43394,  43443, 43443,  43446, 43449,  43452, 43453,
       43471, 43471,  43493, 43494,  43561, 43566,  43569, 43570,
       43573, 43574,  43587, 43587,  43596, 43596,  43632, 43632,
       43644, 43644,  43696, 43696,  43698, 43700,  43703, 43704,
       43710, 43711,  43713, 43713,  43741, 43741,  43756, 43757,
       43763, 43764,  43766, 43766,  43867, 43871,  43881, 43883,
       44005, 44005,  44008, 44008,  44013, 44013,  64286, 64286,
       64434, 64450,  65024, 65039,  65043, 65043,  65056, 65071,
       65106, 65106,  65109, 65109,  65279, 65279,  65287, 65287,
       65294, 65294,  65306, 65306,  65342, 65342,  65344, 65344,
       65392, 65392,  65438, 65439,  65507, 65507,  65529, 65531,
       66045, 66045,  66272, 66272,  66422, 66426,  67456, 67461,
       67463, 67504,  67506, 67514,  68097, 68099,  68101, 68102,
       68108, 68111,  68152, 68154,  68159, 68159,  68325, 68326,
       68900, 68903,  69291, 69292,  69446, 69456,  69506, 69509,
       69633, 69633,  69688, 69702,  69744, 69744,  69747, 69748,
       69759, 69761,  69811, 69814,  69817, 69818,  69821, 69821,
       69826, 69826,  69837, 69837,  69888, 69890,  69927, 69931,
       69933, 69940,  70003, 70003,  70016, 70017,  70070, 70078,
       70089, 70092,  70095, 70095,  70191, 70193,  70196, 70196,
       70198, 70199,  70206, 70206,  70367, 70367,  70371, 70378,
       70400, 70401,  70459, 70460,  70464, 70464,  70502, 70508,
       70512, 70516,  70712, 70719,  70722, 70724,  70726, 70726,
       70750, 70750,  70835, 70840,  70842, 70842,  70847, 70848,
       70850, 70851,  71090, 71093,  71100, 71101,  71103, 71104,
       71132, 71133,  71219, 71226,  71229, 71229,  71231, 71232,
       71339, 71339,  71341, 71341,  71344, 71349,  71351, 71351,
       71453, 71455,  71458, 71461,  71463, 71467,  71727, 71735,
       71737, 71738,  71995, 71996,  71998, 71998,  72003, 72003,
       72148, 72151,  72154, 72155,  72160, 72160,  72193, 72202,
       72243, 72248,  72251, 72254,  72263, 72263,  72273, 72278,
       72281, 72283,  72330, 72342,  72344, 72345,  72752, 72758,
       72760, 72765,  72767, 72767,  72850, 72871,  72874, 72880,
       72882, 72883,  72885, 72886,  73009, 73014,  73018, 73018,
       73020, 73021,  73023, 73029,  73031, 73031,  73104, 73105,
       73109, 73109,  73111, 73111,  73459, 73460,  78896, 78904,
       92912, 92916,  92976, 92982,  92992, 92995,  94031, 94031,
       94095, 94111,  94176, 94177,  94179, 94180,  110576, 110579,
       110581, 110587,  110589, 110590,  113821, 113822,  113824, 113827,
       118528, 118573,  118576, 118598,  119143, 119145,  119155, 119170,
       119173, 119179,  119210, 119213,  119362, 119364,  121344, 121398,
       121403, 121452,  121461, 121461,  121476, 121476,  121499, 121503,
       121505, 121519,  122880, 122886,  122888, 122904,  122907, 122913,
       122915, 122916,  122918, 122922,  123184, 123197,  123566, 123566,
       123628, 123631,  125136, 125142,  125252, 125259,  127995, 127999,
       917505, 917505,  917536, 917631,  917760, 917999 >>

\* the cased code points that are not case-ignorable, as ranges
CasedRanges ==
    << 65, 90,  97, 122,  170, 170,  181, 181,  186, 186,  192, 214,
       216, 246,  248, 442,  444, 447,  452, 659,  661, 687,  880, 883,
       886, 887,  891, 893,  895, 895,  902, 902,  904, 906,  908, 908,
       910, 929,  931, 1013,  1015, 1153,  1162, 1327,  1329, 1366,
       1376, 1416,  4256, 4293,  4295, 4295,  4301, 4301,  4304, 4346,
       4349, 4351,  5024, 5109,  5112, 5117,  7296, 7304,  7312, 7354,
       7357, 7359,  7424, 7467,  7531, 7543,  7545, 7578,  7680, 7957,
       7960, 7965,  7968, 8005,  8008, 8013,  8016, 8023,  8025, 8025,
       8027, 8027,  8029, 8029,  8031, 8061,  8064, 8116,  8118, 8124,
       8126, 8126,  8130, 8132,  8134, 8140,  8144, 8147,  8150, 8155,
       8160, 8172,  8178, 8180,  8182, 8188,  8450, 8450,  8455, 8455,
       8458, 8467,  8469, 8469,  8473, 8477,  8484, 8484,  8486, 8486,
       8488, 8488,  8490, 8493,  8495, 8500,  8505, 8505,  8508, 8511,
       8517, 8521,  8526, 8526,  8544, 8575,  8579, 8580,  9398, 9449,
       11264, 11387,  11390, 11492,  11499, 11502,  11506, 11507,
       11520, 11557,  11559, 11559,  11565, 11565,  42560, 42605,
       42624, 42651,  42786, 42863,  42865, 42887,  42891, 42894,
       42896, 42954,  42960, 42961,  42963, 42963,  42965, 42969,
       42997, 42998,  43002, 43002,  43824, 43866,  43872, 43880,
       43888, 43967,  64256, 64262,  64275, 64279,  65313, 65338,
       65345, 65370,  66560, 66639,  66736, 66771,  66776, 66811,
       66928, 66938,  66940, 66954,  66956, 66962,  66964, 66965,
       66967, 66977,  66979, 66993,  66995, 67001,  67003, 67004,
       68736, 68786,  68800, 68850,  71840, 71903,  93760, 93823,
       119808, 119892,  119894, 119964,  119966, 119967,  119970, 119970,
       119973, 119974,  119977, 119980,  119982, 119993,  119995, 119995,
       119997, 120003,  120005, 120069,  120071, 120074,  120077, 120084,
       120086, 120092,  120094, 120121,  120123, 120126,  120128, 120132,
       120134, 120134,  120138, 120144,  120146, 120485,  120488, 120512,
       120514, 120538,  120540, 120570,  120572, 120596,  120598, 120628,
       120630, 120654,  120656, 120686,  120688, 120712,  120714, 120744,
       120746, 120770,  120772, 120779,  122624, 122633,  122635, 122654,
       125184, 125251,  127280, 127305,  127312, 127337,  127344, 127369 >>


\* what str.lower() makes of one code point on its own: U+0130 becomes
\* the two code points U+0069 U+0307
LowerChar(c) ==
    IF c < 128 THEN (IF c >= 65 /\ c <= 90 THEN <<c + 32>> ELSE <<c>>)
    ELSE IF c = 304 THEN <<105, 775>>
    ELSE <<c + RunDelta(c, LowerRuns)>>

\* position i of s is final among the positions solid (not case-ignorable)
\* and cased: the nearest solid position before i is cased, and the nearest
\* one after i is not
FinalAmong(i, solid, cased) ==
    LET Before == {j \in solid : j < i}
        After  == {j \in solid : j > i}
        Last(S)  == CHOOSE j \in S : \A k \in S : k <= j
        First(S) == CHOOSE j \in S : \A k \in S : k >= j
    IN  /\ Before # {} /\ Last(Before) \in cased
        /\ After = {} \/ First(After) \notin cased

\* the capital sigma at s[i] is final
FinalSigma(s, i) ==
    FinalAmong(i, {j \in 1..Len(s) : ~InRanges(s[j], CaseIgnorableRanges)},
                  {j \in 1..Len(s) : InRanges(s[j], CasedRanges)})

\* U+03A3 becomes U+03C2 where it is final and U+03C3 elsewhere
LowerAt(s, i) ==
    IF s[i] = 931 THEN (IF FinalSigma(s, i) THEN <<962>> ELSE <<963>>)
    ELSE LowerChar(s[i])

\* the concatenation of the texts pieces[i], .., pieces[Len(pieces)]
RECURSIVE JoinFrom(_, _)
JoinFrom(pieces, i) ==
    IF i > Len(pieces) THEN << >> ELSE pieces[i] \o JoinFrom(pieces, i + 1)

\* the concatenation of the pieces
Join(pieces) ==
    IF \A i \in 1..Len(pieces) : Len(pieces[i]) = 1
    THEN [i \in 1..Len(pieces) |-> pieces[i][1]]
    ELSE JoinFrom(pieces, 1)

Lower(s) == Join([i \in 1..Len(s) |-> LowerAt(s, i)])

\* s without its leading white space: i is the number of characters dropped
LStrip(s) ==
    LET i == CHOOSE k \in 0..Len(s) :
                /\ k = Len(s) \/ ~IsSpace(s[k + 1])
                /\ \A j \in 1..k : IsSpace(s[j])
    IN  SubSeq(s, i + 1, Len(s))

\* s without its trailing white space: i is the number of characters kept
RStrip(s) ==
    LET i == CHOOSE k \in 0..Len(s) :
                /\ k = 0 \/ ~IsSpace(s[k])
                /\ \A j \in (k + 1)..Len(s) : IsSpace(s[j])
    IN  SubSeq(s, 1, i)

Strip(s) == RStrip(LStrip(s))

Normalize(s) == Lower(Strip(s))

(***************************************************************************)
(* Progression calculator.                                                 *)
(***************************************************************************)
MaxLevelSearch == 40

\* floor((xp/100)^(2/3)) in exact arithmetic: the largest L with
\* L^3 * 100^2 <= xp^2
ExactLevel(xp) ==
    CHOOSE L \in 0..MaxLevelSearch :
        /\ L * L * L * 10000 <= xp * xp
        /\ (L + 1) * (L + 1) * (L + 1) * 10000 > xp * xp

\* (xp/100) ** (1/1.5) in IEEE doubles lands just below m^2 when
\* xp = 100 * m^3 (m >= 2), so int() yields m^2 - 1 there
RoundsBelow(xp) == \E m \in 2..MaxLevelSearch : xp = 100 * m * m * m

calculate_level_from_xp(xp) ==
    IF xp <= 0 THEN 1
    ELSE Max(1, IF RoundsBelow(xp) THEN ExactLevel(xp) - 1 ELSE ExactLevel(xp))

\* floor(sqrt(n)) by bisection between lo and hi (lo^2 <= n < hi^2)
RECURSIVE ISqrtBetween(_, _, _)
ISqrtBetween(n, lo, hi) ==
    IF hi - lo <= 1 THEN lo
    ELSE LET mid == (lo + hi) \div 2
         IN  IF mid * mid <= n THEN ISqrtBetween(n, mid, hi)
             ELSE ISqrtBetween(n, lo, mid)

\* calculate_xp_for_level that also returns 0 for level 2
calculate_xp_for_level_from_two(level) ==
    IF level <= 2 THEN 0
    ELSE ISqrtBetween(10000 * level * level * level, 0, 100 * level * level)

\* int(math.floor((level ** 1.5) * 100)) = floor(sqrt(10000 * level^3))
calculate_xp_for_level(level) ==
    IF level <= 1 THEN 0
    ELSE ISqrtBetween(10000 * level * level * level, 0, 100 * level * level)

(***************************************************************************)
(* Tables.  db.user is the account row.  quest_progress and post_progress  *)
(* carry a unique constraint on (user, quest) and (user, post) and are     *)
(* functions from the keys that have a row; inventory is the set of item   *)
(* ids owned; the other tables are bags of rows (rows differ by their      *)
(* generated id only).                                                     *)
(***************************************************************************)
NewUser == [xp |-> 0, level |-> 1, current_streak |-> 0, longest_streak |-> 0]

EmptyDb ==
    [ user              |-> NewUser,
      xp_transactions   |-> EmptyBag,
      daily_rewards     |-> EmptyBag,
      quest_progress    |-> << >>,
      quest_submissions |-> EmptyBag,
      post_progress     |-> << >>,
      inventory         |-> {} ]

\* number of rows of the table that satisfy Where
CountRows(table, Where(_)) ==
    LET rows == {r \in BagToSet(table) : Where(r)}
        RECURSIVE Sum(_)
        Sum(S) == IF S = {} THEN 0
                  ELSE LET r == CHOOSE x \in S : TRUE
                       IN  CopiesIn(r, table) + Sum(S \ {r})
    IN  Sum(rows)

\* f with key k bound to v (k may be new)
Put(f, k, v) == [x \in DOMAIN f \cup {k} |-> IF x = k THEN v ELSE f[x]]

DayOf(t) == t \div DAY

HasRow(d, quest_id) == quest_id \in DOMAIN d.quest_progress

IsCompleted(d, quest_id) == HasRow(d, quest_id) /\ d.quest_progress[quest_id].completed

(***************************************************************************)
(* Mapper configuration.  The relationship() declarations of the model     *)
(* classes registered by src.models: the declaring class, the name of the  *)
(* property, the class it points to and the property of that class named   *)
(* by back_populates.                                                      *)
(***************************************************************************)
Relationships ==
    { [class |-> "User", key |-> "refresh_tokens",
       target |-> "RefreshToken", back_populates |-> "user"],
      [class |-> "User", key |-> "inventory_items",
       target |-> "InventoryItem", back_populates |-> "user"],
      [class |-> "User", key |-> "quest_progress",
       target |-> "QuestProgress", back_populates |-> "user"],
      [class |-> "User", key |-> "post_progress",
       target |-> "PostProgress", back_populates |-> "user"],
      [class |-> "User", key |-> "daily_rewards",
       target |-> "DailyReward", back_populates |-> "user"],
      [class |-> "User", key |-> "xp_transactions",
       target |-> "XPTransaction", back_populates |-> "user"],
      [class |-> "RefreshToken", key |-> "user",
       target |-> "User", back_populates |-> "refresh_tokens"],
      [class |-> "InventoryItem", key |-> "user",
       target |-> "User", back_populates |-> "inventory_items"],
      [class |-> "QuestProgress", key |-> "user",
       target |-> "User", back_populates |-> "quest_progress"],
      [class |-> "PostProgress", key |-> "user",
       target |-> "User", back_populates |-> "post_progress"],
      [class |-> "DailyReward", key |-> "user",
       target |-> "User", back_populates |-> "daily_rewards"],
      [class |-> "XPTransaction", key |-> "user",
       target |-> "User", back_populates |-> "xp_transactions"],
      [class |-> "QuestSubmission", key |-> "user",
       target |-> "User", back_populates |-> "quest_submissions"] }

\* the class declares a relationship of that name (no column of User or of
\* the other classes carries one of the names used by back_populates)
HasProperty(class, key) ==
    \E r \in Relationships : r.class = class /\ r.key = key

\* what the configuration of the mappers raises: sqlalchemy configures all
\* mappers of the registry together at the first use of a mapped class and
\* raises InvalidRequestError when a back_populates names no property of
\* the target class; every later use of a mapped class raises
\* InvalidRequestError again ("One or more mappers failed to initialize")
configure_mappers ==
    IF \A r \in Relationships : HasProperty(r.target, r.back_populates)
    THEN "none"
    ELSE "InvalidRequestError"

(***************************************************************************)
(* Dependencies of the routes (dependencies.py, database.py).              *)
(***************************************************************************)
\* BaseRepository.get_by_id of the UserRepository: Session.get(User, id)
get_by_id(d) ==
    IF configure_mappers # "none"
    THEN [raised |-> configure_mappers]
    ELSE [raised |-> "none", user |-> d.user]

\* get_current_user for a request that carries the bearer token of the
\* account: the token decodes and names the account, so the three checks of
\* the token pass; then the account is loaded.  The load raises before the
\* row is looked at; were it to return, the account exists and is active
\* and is the value of the dependency.
get_current_user(d) == get_by_id(d)

\* a request that ended in an exception: get_async_session rolls back and
\* raises it again, the client gets status 500; d is the session's state
\* when it was raised.  The review oracle was not called.
Raised(d, exception) ==
    [db |-> d, oracle_called |-> FALSE, resp |-> [status |-> exception]]

\* a route that declares current_user: CurrentUser.  The route function is
\* called with the user get_current_user returned; when get_current_user
\* raises it is not called.  configure_mappers leaves no other case.
CurrentUser(d) ==
    LET current_user == get_current_user(d)
    IN  CASE current_user.raised # "none" -> Raised(d, current_user.raised)

(***************************************************************************)
(* Requests.  A request is answered in one step: the exception of the      *)
(* dependency is raised before the session has run a statement.            *)
(***************************************************************************)
NoRequest ==
    [op |-> "none", arg |-> "none", payload |-> NullStr, verdict |-> "none",
     number |-> NULL, at |-> 0, oracle_called |-> FALSE,
     resp |-> [status |-> "none"]]

\* the record of a request answered now: the path or query argument, the
\* text of the body, the numeric field of the body (readXp, requiredLevel)
Request(op, arg, payload, verdict, number, r) ==
    [op |-> op, arg |-> arg, payload |-> payload, verdict |-> verdict,
     number |-> number, at |-> now,
     oracle_called |-> r.oracle_called,
     resp |-> r.resp]

\* get_async_session: commit when the request returned, rollback when it
\* raised
Finish(op, arg, payload, verdict, number, r) ==
    /\ served < MaxRequests
    /\ db' = (IF r.resp.status = "ok" THEN r.db ELSE db)
    /\ last' = Request(op, arg, payload, verdict, number, r)
    /\ served' = served + 1
    /\ UNCHANGED <<now, ticks>>

Init ==
    /\ db = EmptyDb
    /\ now = StartTime
    /\ ticks = 0
    /\ served = 0
    /\ last = NoRequest

TickSeconds ==
    /\ ticks < MaxTicks
    /\ \E delta \in ShortDeltas : now' = now + delta
    /\ ticks' = ticks + 1
    /\ UNCHANGED <<db, served, last>>

(***************************************************************************)
(* Routes of /game.                                                        *)
(***************************************************************************)
\* values of readXp in the requests (0..1000, 15 when absent)
ReadXps == {0, XP_READ_POST}

\* POST /game/read-post
ReadPost ==
    \E post_slug \in PostSlugs, read_xp \in ReadXps :
        Finish("read_post", post_slug, NullStr, "none", read_xp, CurrentUser(db))

\* POST /game/daily-reward
ClaimDailyReward ==
    Finish("claim_daily_reward", "none", NullStr, "none", NULL, CurrentUser(db))

\* POST /game/use-item
UseItem ==
    \E item_id \in Items, target_slug \in PostSlugs \cup {NoTarget} :
        Finish("use_item", target_slug, item_id, "none", NULL, CurrentUser(db))

\* values of requiredLevel in the requests (absent, 2, 10)
RequiredLevels == {NULL, 2, 10}

\* POST /game/check-access
CheckAccess ==
    \E post_slug \in PostSlugs, required_level \in RequiredLevels,
       required_item \in Items \cup {NullStr} :
        Finish("check_access", post_slug, required_item, "none", required_level,
               CurrentUser(db))

\* GET /game/level-progress
GetLevelProgress ==
    Finish("level_progress", "none", NullStr, "none", NULL, CurrentUser(db))

\* GET /game/post-status/{post_slug}
GetPostStatus ==
    \E post_slug \in PostSlugs :
        Finish("post_status", post_slug, NullStr, "none", NULL, CurrentUser(db))

\* DELETE /game/dev/reset-post-progress, the one route without a user:
\* refused in production; elsewhere the route calls
\* PostProgressRepository.delete_all, which the class does not define
reset_all_post_progress(d, is_production) ==
    IF is_production THEN Raised(d, "Forbidden")
    ELSE Raised(d, "AttributeError")

ResetAllPostProgress ==
    \E is_production \in BOOLEAN :
        Finish("reset_post_progress",
               IF is_production THEN "production" ELSE "development",
               NullStr, "none", NULL,
               reset_all_post_progress(db, is_production))

(***************************************************************************)
(* Routes of /quests.  The verdict of a submit-code request is what the    *)
(* review service has ready at the time of the request.                    *)
(***************************************************************************)
\* POST /quests/{quest_id}/start
StartQuest ==
    \E quest_id \in RequestQuestIds :
        Finish("start_quest", quest_id, NullStr, "none", NULL, CurrentUser(db))

\* POST /quests/{quest_id}/submit
SubmitAnswer ==
    \E quest_id \in RequestQuestIds, answer \in Answers :
        Finish("submit_answer", quest_id, answer, "none", NULL, CurrentUser(db))

\* POST /quests/{quest_id}/submit-code
SubmitCode ==
    \E quest_id \in RequestQuestIds, code \in Codes, verdict \in Verdicts :
        Finish("submit_code", quest_id, code, verdict, NULL, CurrentUser(db))

\* GET /quests/{quest_id}/progress
GetQuestProgress ==
    \E quest_id \in RequestQuestIds :
        Finish("quest_progress", quest_id, NullStr, "none", NULL, CurrentUser(db))

\* GET /quests/progress
ListProgress ==
    \E include_in_progress \in BOOLEAN :
        Finish("list_progress",
               IF include_in_progress THEN "include_in_progress" ELSE "completed_only",
               NullStr, "none", NULL, CurrentUser(db))

(***************************************************************************)
(* The level calculator applied to an XP value / to a level.               *)
(***************************************************************************)
LevelFromXp ==
    \E xp \in 0..MaxXp :
        /\ last' = [NoRequest EXCEPT !.op = "calculate_level_from_xp", !.arg = xp,
                        !.resp = [status |-> "ok",
                                  level |-> calculate_level_from_xp(xp)]]
        /\ UNCHANGED <<db, now, ticks, served>>

XpForLevel ==
    \E level \in 0..MaxLevel :
        /\ last' = [NoRequest EXCEPT !.op = "calculate_xp_for_level", !.arg = level,
                        !.resp = [status |-> "ok",
                                  xp |-> calculate_xp_for_level(level)]]
        /\ UNCHANGED <<db, now, ticks, served>>

(***************************************************************************)
(* Specifications.                                                         *)
(***************************************************************************)
\* the requests of the account to the two routers, the clock advancing
Next ==
    \/ TickSeconds
    \/ ReadPost
    \/ ClaimDailyReward
    \/ UseItem
    \/ CheckAccess
    \/ GetLevelProgress
    \/ GetPostStatus
    \/ ResetAllPostProgress
    \/ StartQuest
    \/ SubmitAnswer
    \/ SubmitCode
    \/ GetQuestProgress
    \/ ListProgress

Spec == Init /\ [][Next]_vars

\* the level calculator on its own
NextLevels ==
    \/ LevelFromXp
    \/ XpForLevel

SpecLevels == Init /\ [][NextLevels]_vars

(***************************************************************************)
(* Properties.                                                             *)
(***************************************************************************)
\* number of ledger rows of the given source and source id
Grants(d, source, source_id) ==
    LET Match(r) == r.source = source /\ r.source_id = source_id
    IN  CountRows(d.xp_transactions, Match)

QuestOfType(type) == {q \in QuestIds : QuestDefs[q].quest_type = type}

\* a step that is a request (the clock does not move)
QuestRequestStep == ticks' = ticks

CorrectAnswers(q) ==
    {a \in Answers : Normalize(a) = Normalize(QuestDefs[q].correct_answer)}

\* the one request answered so far gave a correct answer to the
\* multiple-choice quest q of the new account
CorrectAnswerGivenFirst(q) ==
    /\ served = 1
    /\ last.op = "submit_answer"
    /\ last.arg = q
    /\ QuestDefs[q].quest_type = "multiple-choice"
    /\ last.payload \in CorrectAnswers(q)

ClaimedOnDayOf(d, t) ==
    \E r \in BagToSet(d.daily_rewards) : DayOf(r.claimed_at) = DayOf(t)

\* a step that is a daily-claim request
ClaimStep == now' = now /\ served' = served + 1 /\ last'.op = "claim_daily_reward"

\* the one request answered so far was a daily claim of the new account,
\* made in the current UTC day
ClaimedFirstToday ==
    /\ served = 1
    /\ last.op = "claim_daily_reward"
    /\ DayOf(last.at) = DayOf(now)

LatestClaimDay(d) ==
    IF d.daily_rewards = EmptyBag THEN -1
    ELSE CHOOSE day \in {DayOf(r.claimed_at) : r \in BagToSet(d.daily_rewards)} :
            \A r \in BagToSet(d.daily_rewards) : DayOf(r.claimed_at) <= day

\* C6 (as claimed): a successful daily claim sets current_streak to the
\* previous current_streak + 1 when the most recent prior claim is dated the
\* previous UTC day, and to 1 when there is no prior claim or it is older;
\* the first claim of a new account succeeds and returns streakDay=1.
C6_StreakStep ==
    [][ClaimStep =>
          /\ (last'.resp.status = "ok" /\ last'.resp.success) =>
                /\ db'.user.current_streak =
                      (IF LatestClaimDay(db) = DayOf(now) - 1
                       THEN db.user.current_streak + 1 ELSE 1)
                /\ last'.resp.streak_day = db'.user.current_streak
          /\ served = 0 =>
                /\ last'.resp.status = "ok"
                /\ last'.resp.success
                /\ last'.resp.streak_day = 1]_vars

\* C7 (as claimed): XP for reading a post is awarded exactly once: the first
\* read returns alreadyRead=false and raises XP by 15 with one ledger row;
\* every later read of the slug returns alreadyRead=true, xpAwarded=0 and
\* leaves XP, level and the ledger unchanged.
C7_ReadPaidOnce ==
    [][(now' = now /\ last'.op = "read_post") =>
          LET slug == last'.arg
          IN  /\ last'.resp.status = "ok"
              /\ IF Grants(db, "read_post", slug) = 0
                 THEN /\ last'.resp.already_read = FALSE
                      /\ last'.resp.xp_awarded = 15
                      /\ db'.user.xp = db.user.xp + 15
                      /\ last'.resp.new_xp = db'.user.xp
                      /\ Grants(db', "read_post", slug) = 1
                 ELSE /\ last'.resp.already_read = TRUE
                      /\ last'.resp.xp_awarded = 0
                      /\ db'.user = db.user
                      /\ db'.xp_transactions = db.xp_transactions]_vars

\* the one request answered so far was a submit_code for the code quest q of
\* the new account, for which the review service had a FAIL ready
FailedReviewFirst(q) ==
    /\ served = 1
    /\ last.op = "submit_code"
    /\ last.arg = q
    /\ last.verdict = "fail"

C10_CorrectAnswerCompletes ==
    [][\A q \in QuestOfType("multiple-choice") :
          (/\ QuestRequestStep
           /\ last'.op = "submit_answer"
           /\ last'.arg = q
           /\ last'.payload \in CorrectAnswers(q)
           /\ ~IsCompleted(db, q))
          => /\ last'.resp.status = "ok"
             /\ last'.resp.correct
             /\ HasRow(db', q)
             /\ db'.quest_progress[q].completed
             /\ db'.quest_progress[q].completed_at = now
             /\ db'.quest_progress[q].attempts =
                    (IF HasRow(db, q) THEN db.quest_progress[q].attempts ELSE 0) + 1
             /\ last'.resp.attempts = db'.quest_progress[q].attempts
             /\ db'.quest_progress[q].answer_given = last'.payload
             /\ db'.user.xp = db.user.xp + QuestDefs[q].xp_reward
             /\ last'.resp.xp_awarded = QuestDefs[q].xp_reward]_vars

\* number of QuestSubmission rows of the quest with passed=false
FailedRows(d, q) ==
    LET IsFailed(r) == r.quest_id = q /\ r.passed = FALSE
    IN  CountRows(d.quest_submissions, IsFailed)

\* C11: submit_answer with an answer whose normalized form differs from the
\* quest's normalized correct answer raises the attempt counter by exactly
\* one, stores the answer as given, appends one QuestSubmission with
\* passed=false, returns correct=false and xpAwarded=0, and leaves the
\* account row, the ledger and the completed flag unchanged.
C11_WrongAnswerCounts ==
    [][\A q \in QuestOfType("multiple-choice") :
          (/\ QuestRequestStep
           /\ last'.op = "submit_answer"
           /\ last'.arg = q
           /\ last'.payload \notin CorrectAnswers(q)
           /\ ~IsCompleted(db, q))
          => /\ last'.resp.status = "ok"
             /\ last'.resp.correct = FALSE
             /\ last'.resp.xp_awarded = 0
             /\ HasRow(db', q)
             /\ db'.quest_progress[q].attempts =
                    (IF HasRow(db, q) THEN db.quest_progress[q].attempts ELSE 0) + 1
             /\ last'.resp.attempts = db'.quest_progress[q].attempts
             /\ db'.quest_progress[q].answer_given = last'.payload
             /\ BagCardinality(db'.quest_submissions)
                    = BagCardinality(db.quest_submissions) + 1
             /\ FailedRows(db', q) = FailedRows(db, q) + 1
             /\ db'.user = db.user
             /\ db'.xp_transactions = db.xp_transactions
             /\ ~IsCompleted(db', q)]_vars

C14_RejectedRequestsChangeNothing ==
    [][(/\ QuestRequestStep
        /\ last'.op \in {"start_quest", "submit_answer", "submit_code"})
       => /\ last'.arg \notin QuestIds
             => /\ last'.resp.status = "NotFound"
                /\ db' = db
                /\ ~last'.oracle_called
          /\ (/\ last'.arg \in QuestIds
              /\ \/ /\ last'.op = "submit_answer"
                     /\ QuestDefs[last'.arg].quest_type = "code"
                 \/ /\ last'.op = "submit_code"
                     /\ QuestDefs[last'.arg].quest_type = "multiple-choice")
             => /\ last'.resp.status = "BadRequest"
                /\ db' = db
                /\ ~last'.oracle_called]_vars

\* C15: start on a pair without a progress row creates the row with
\* started_at = now, attempts = 0, completed = false and returns
\* alreadyStarted=false; on a pair with a row it returns alreadyStarted=true,
\* alreadyCompleted = the row's completed flag, and changes nothing (so the
\* second of two starts, which meets the row of the first, leaves the state
\* the first one left).
C15_StartIsIdempotent ==
    [][\A q \in QuestIds :
          (/\ QuestRequestStep
           /\ last'.op = "start_quest"
           /\ last'.arg = q)
          => /\ last'.resp.status = "ok"
             /\ IF HasRow(db, q)
                THEN /\ db' = db
                     /\ last'.resp.already_started = TRUE
                     /\ last'.resp.already_completed = db.quest_progress[q].completed
                ELSE /\ db' = [db EXCEPT !.quest_progress =
                                 Put(@, q, [started_at |-> now, completed |-> FALSE,
                                            completed_at |-> NULL,
                                            last_attempt_at |-> NULL,
                                            attempts |-> 0, answer_given |-> NullStr])]
                     /\ last'.resp.already_started = FALSE
                     /\ last'.resp.already_completed = FALSE]_vars

\* the content has an unlock record for the account
Unlocked(d, slug) ==
    \E k \in DOMAIN d.post_progress : k = slug /\ d.post_progress[k].is_unlocked = TRUE

\* C16 (as claimed): check_access returns hasAccess=true exactly when
\* (requiredLevel is unset or level >= requiredLevel) and (requiredItem is
\* unset, or the account owns it, or the content has an unlock record); with
\* no requirement it returns true; it never changes the state.
C16_AccessRule ==
    [][(now' = now /\ last'.op = "check_access") =>
          LET slug  == last'.arg
              item  == last'.payload
              level == last'.number
          IN  /\ last'.resp.status = "ok"
              /\ last'.resp.has_access =
                    (/\ level = NULL \/ db.user.level >= level
                     /\ \/ item = NullStr
                        \/ item \in db.inventory
                        \/ Unlocked(db, slug))
              /\ (level = NULL /\ item = NullStr) => last'.resp.has_access
              /\ db' = db]_vars

\* the text starts with "key_"
IsKeyItem(item) == Len(item) >= 4 /\ SubSeq(item, 1, 4) = <<107, 101, 121, 95>>

\* C18 (as claimed): use-item for an item that is not in the inventory
\* fails with NotFound and changes nothing; a successful use-item removes
\* the item (so a second use without re-acquiring it meets an inventory
\* without the item and fails with NotFound); a non-key item or a key
\* without a target creates no unlock record.
C18_UseItemConsumes ==
    [][(now' = now /\ last'.op = "use_item") =>
          LET item   == last'.payload
              target == last'.arg
          IN  IF item \in db.inventory
              THEN /\ last'.resp.status = "ok"
                   /\ db'.inventory = db.inventory \ {item}
                   /\ (~IsKeyItem(item) \/ target = NoTarget)
                      => db'.post_progress = db.post_progress
              ELSE /\ last'.resp.status = "NotFound"
                   /\ db' = db]_vars

\* C20 (as claimed): the progress listing with include_in_progress=true
\* returns every entry in progress before every completed entry, the entries
\* in progress by started_at descending and the completed entries by
\* completed_at descending.
C20_InProgressListedFirst ==
    [][(/\ QuestRequestStep
        /\ last'.op = "list_progress"
        /\ last'.arg = "include_in_progress")
       => /\ last'.resp.status = "ok"
          /\ LET r == last'.resp.results
             IN  \A i, j \in 1..Len(r) :
                   i < j =>
                     /\ ~(r[i].completed /\ r[j].in_progress)
                     /\ (r[i].in_progress /\ r[j].in_progress)
                        => r[i].started_at >= r[j].started_at
                     /\ (r[i].completed /\ r[j].completed)
                        => r[i].completed_at >= r[j].completed_at]_vars

\* C21: for every level L >= 1 of the range the XP required for level L + 1
\* is larger than the XP required for level L, where the XP required is
\* floor(100 * L^1.5) and 0 for L <= 1; for every xp >= 0 the level of xp is
\* at least 1.
C21_LevelCurveMonotone ==
    /\ last.op = "calculate_xp_for_level" =>
          LET L == last.arg
              x == last.resp.xp
          IN  /\ L <= 1 => x = 0
              /\ L >= 2 => /\ x * x <= 10000 * L * L * L
                            /\ (x + 1) * (x + 1) > 10000 * L * L * L
              /\ L >= 1 => calculate_xp_for_level(L + 1) > x
    /\ last.op = "calculate_level_from_xp" => last.resp.level >= 1

\* the XP required for level 4 was computed
C21_Witness ==
    /\ last.op = "calculate_xp_for_level"
    /\ last.arg = 4
    /\ last.resp.xp = 800
    /\ calculate_xp_for_level(5) = 1118

\* C22 (as claimed): for every level L >= 1 of the range, the level of the
\* XP that calculate_xp_for_level reports as required for L is L.
C22_RequiredXpReachesLevel ==
    (last.op = "calculate_xp_for_level" /\ last.arg >= 1)
        => calculate_level_from_xp(last.resp.xp) = last.arg

\* C27 (as claimed): over any sequence of start, submitAnswer and submitCode
\* requests, every progress row is either in progress (started_at set, not
\* completed) or completed (completed with completed_at and started_at set),
\* and a listing with include_in_progress=true has an entry for every
\* progress row whose quest exists.
C27_RowIsInProgressOrCompleted ==
    /\ \A q \in DOMAIN db.quest_progress :
          LET p == db.quest_progress[q]
          IN  \/ p.started_at # NULL /\ ~p.completed
              \/ p.completed /\ p.completed_at # NULL /\ p.started_at # NULL
    /\ (last.op = "list_progress" /\ last.arg = "include_in_progress") =>
          /\ last.resp.status = "ok"
          /\ \A q \in DOMAIN db.quest_progress \cap QuestIds :
                \E i \in 1..Len(last.resp.results) : last.resp.results[i].quest_id = q

====
